---- MODULE Spec2Model ----
(***************************************************************************)
(* A model of the duplex audio core of the hospital voice agent:           *)
(*   - AudioPlayer            (src/agent/voice_agent.py, lines 50-187)     *)
(*   - RealtimeVoiceAgent     (src/agent/voice_agent.py, lines 190-604)    *)
(*   - handle_tool_call       (src/agent/tools.py, lines 105-144)          *)
(*   - EchoCanceller          (src/utils/echo_canceller.py, lines 12-141)  *)
(*                                                                         *)
(* The specifications share the variables:                                 *)
(*   SpecPlayer  the AudioPlayer driven through its public methods, with   *)
(*               the playback thread and the guard-reset timers running;   *)
(*   Spec        the event-processing flow: handle_realtime_connection     *)
(*               taking inbound events and calling the AudioPlayer's       *)
(*               methods, with the guard-reset timers and the clock.  The  *)
(*               playback thread shares only audio_queue and               *)
(*               interrupt_flag with this flow and writes no session       *)
(*               state; its steps are those of SpecPlayer;                 *)
(*   SpecEcho    the EchoCanceller driven through its public methods;      *)
(*   SpecRun     run_async: connect, the capture and event tasks, teardown;*)
(*   SpecEvents  the transcript, response.done and error handlers;         *)
(*   SpecSummary the turn counter and summarize_conversation;              *)
(*   SpecLegacy  the VoiceAgent wrapper around run_async;                  *)
(*   SpecGate    SimpleEchoGate and the EchoCanceller's quick check.       *)
(*                                                                         *)
(* Granularity.  The event loop is one asyncio task: a handler is atomic   *)
(* up to its awaits.  The playback thread and the threading.Timer threads  *)
(* are real threads and interleave with it at every step.  A test of       *)
(* interrupt_flag together with the stream.write it guards is one step of  *)
(* the playback thread (the write begins where its guard is evaluated);    *)
(* the blocking write itself lasts until PlayerWriteEnd.                   *)
(***************************************************************************)
EXTENDS Integers, Sequences, FiniteSets, TLC

VARIABLES
    \* ---- AudioPlayer
    is_mac,            \* platform.system() == "Darwin"
    audio_queue,       \* queue.Queue of frames
    stop_flag,         \* threading.Event
    interrupt_flag,    \* threading.Event
    timers,            \* pending threading.Timer(0.1, _reset_interrupt), by the cancel that started them
    player_pc,         \* position of _player_thread
    audio_data,        \* the frame _player_thread popped
    chunk_i,           \* loop variable i of the sub-chunk loop
    audio_buffer,      \* frames accumulated on the Mac path
    wr,                \* the stream.write in progress
    cancels,           \* history: number of cancel_current() calls so far
    pending,           \* history: the frames enqueued since the last
                       \* cancel_current() and not yet handed to the device
    \* ---- RealtimeVoiceAgent
    session_pc,        \* position of handle_realtime_connection
    connected,         \* self.connected (asyncio.Event)
    ai_speaking,
    time_since_ai_stopped, \* time.time() - self.ai_speech_end_time, in tenths of a second
    session_updates,   \* history: number of conn.session.update calls
    tool,              \* the tool call being handled across its awaits
    acc_items,         \* acc_items: item id -> transcript text so far
    turn_count,
    turns_since_summary, \* history: turns counted since summarize_conversation
                       \* was last called
    recent_exchanges,  \* the 'assistant' texts of self.recent_exchanges
    conversation_summary, \* number of the summary held ("" is 0)
    arrived,           \* history: the transcript deltas received, in order
    cancelled_in_flight, \* history: a response.cancel was sent and neither
                       \* response.cancelled nor response.done has come since
    \* ---- run_async and send_mic_audio
    run_pc,            \* position of run() / run_async()
    capture_pc,        \* position of send_mic_audio
    end_sessions,      \* history: number of cost_tracker.end_session() calls
    reports,           \* history: the failures printed so far
    \* ---- EchoCanceller
    speaker_buffer,    \* deque(maxlen=buffer_size) of played samples
    is_playing,
    samples_since_play,
    \* ---- SimpleEchoGate
    is_ai_speaking,
    samples_since_ai_stopped,
    \* ---- history
    ev,                \* the call or inbound event this step handled
    out,               \* outbound messages this step initiated
    printed            \* lines this step printed for the user

playerVars  == <<is_mac, audio_queue, stop_flag, interrupt_flag, timers, player_pc,
                 audio_data, chunk_i, audio_buffer, wr, cancels, pending>>
threadVars  == <<player_pc, audio_data, chunk_i, audio_buffer, wr>>
sessionVars == <<session_pc, connected, ai_speaking, time_since_ai_stopped,
                 session_updates, tool>>
gateVars    == <<is_ai_speaking, samples_since_ai_stopped>>
echoVars    == <<speaker_buffer, is_playing, samples_since_play, gateVars>>
turnVars    == <<acc_items, turn_count, recent_exchanges, conversation_summary,
                 arrived, turns_since_summary>>
convVars    == <<turnVars, cancelled_in_flight>>
runVars     == <<run_pc, capture_pc, end_sessions, reports>>
vars == <<playerVars, sessionVars, convVars, runVars, echoVars, ev, out, printed>>

-----------------------------------------------------------------------------
(* Bounds of the model *)

MaxQueue == 2          \* frames waiting in audio_queue
MaxCancels == 2        \* cancel_current() calls in one run
MaxDeltas == 3         \* transcript deltas kept in acc_items, all items together
MaxTurns == 5          \* transcript-done events in one run
MaxExchanges == 1      \* entries of recent_exchanges

(* Program constants *)

chunk_size == 1200         \* samples per sub-chunk
min_buffer_size == 4800    \* samples accumulated before a combined write (Mac)
SampleBytes == 2           \* np.int16

\* Byte lengths of the payloads given to play(): empty, not a whole number
\* of int16 samples, a frame of one and a half sub-chunks, a frame of four.
ByteLens == {0, 3, 3600, 9600}

NoFrame == [n |-> 0, ep |-> 0]
NoWrite == [site |-> "none", eps |-> {}, at |-> 0]
NoEvent == [type |-> "none"]

-----------------------------------------------------------------------------
(* AudioPlayer: the methods called from the event-processing flow *)

\* np.frombuffer(audio_bytes, dtype=np.int16): raises ValueError unless the
\* buffer is a whole number of elements.
frombuffer(audio_bytes) ==
    IF audio_bytes % SampleBytes = 0
    THEN [raised |-> FALSE, len |-> audio_bytes \div SampleBytes]
    ELSE [raised |-> TRUE, len |-> 0]

\* play as a bug would have it: no test of interrupt_flag
playUnguarded(audio_bytes) ==
    LET audio_array == frombuffer(audio_bytes) IN
    IF ~audio_array.raised /\ audio_array.len > 0
    THEN Append(audio_queue, [n |-> audio_array.len, ep |-> cancels])
    ELSE audio_queue

\* AudioPlayer.play: the queue it leaves.  A frame is tagged with the number
\* of cancel_current() calls that preceded its enqueueing.
play(audio_bytes) ==
    IF interrupt_flag
    THEN audio_queue
    ELSE LET audio_array == frombuffer(audio_bytes) IN
         IF audio_array.raised THEN audio_queue
         ELSE IF audio_array.len > 0
              THEN Append(audio_queue, [n |-> audio_array.len, ep |-> cancels])
              ELSE audio_queue

\* pending after play() has left the queue as queue: the frame it put, if any,
\* is the newest
enqueued(queue) ==
    IF queue = audio_queue THEN pending
    ELSE Append(pending, queue[Len(queue)])

\* pending after frames were handed to stream.write: the last of them that
\* are at its front are taken off (frames enqueued before a cancel_current()
\* are not in pending and may come first in what is handed)
handed(frames) ==
    LET fits(k) == /\ k <= Len(frames) /\ k <= Len(pending)
                   /\ SubSeq(frames, Len(frames) - k + 1, Len(frames)) =
                        SubSeq(pending, 1, k)
        k == CHOOSE k \in 0..Len(frames) :
                 fits(k) /\ \A j \in (k + 1)..Len(frames) : ~fits(j)
    IN SubSeq(pending, k + 1, Len(pending))

\* AudioPlayer.cancel_current: set the flag, drain the queue, start a timer.
cancel_current ==
    /\ interrupt_flag' = TRUE
    /\ audio_queue' = << >>
    /\ timers' = timers \cup {cancels + 1}
    /\ cancels' = cancels + 1
    /\ pending' = << >>

\* AudioPlayer._reset_interrupt, run by the timer thread of cancel t.
ResetInterrupt(t) ==
    /\ t \in timers
    /\ interrupt_flag' = FALSE
    /\ timers' = timers \ {t}
    /\ ev' = NoEvent /\ out' = << >>
    /\ UNCHANGED <<is_mac, pending, audio_queue, stop_flag, cancels, threadVars, sessionVars>>
    /\ printed' = << >>
    /\ UNCHANGED <<echoVars, runVars, convVars>>

-----------------------------------------------------------------------------
(* AudioPlayer._player_thread *)

Samples(frames) ==
    LET S[k \in 0..Len(frames)] == IF k = 0 THEN 0 ELSE S[k-1] + frames[k].n
    IN S[Len(frames)]

Epochs(frames) == {frames[k].ep : k \in 1..Len(frames)}

ThreadStep == ev' = NoEvent /\ out' = << >>
              /\ printed' = << >>
              /\ UNCHANGED <<is_mac, stop_flag, interrupt_flag, timers, cancels,
                             sessionVars, echoVars, runVars, convVars>>

\* queue.Queue.get as a bug would have it: the newest item is taken
queue_get_newest(queue) ==
    [item |-> queue[Len(queue)], rest |-> SubSeq(queue, 1, Len(queue) - 1)]

\* queue.Queue.get: the oldest item is taken
queue_get(queue) == [item |-> Head(queue), rest |-> Tail(queue)]

\* line 88: audio_queue.get(timeout=0.1) returns a frame
PlayerGet ==
    /\ player_pc = "get" /\ ~stop_flag
    /\ audio_queue # << >>
    /\ audio_data' = queue_get(audio_queue).item
    /\ audio_queue' = queue_get(audio_queue).rest
    /\ player_pc' = "popped"
    /\ UNCHANGED <<chunk_i, audio_buffer, wr, pending>>
    /\ ThreadStep

\* line 118 as a bug would have it: the flush not guarded by the flag
FlushGuardNoFlag == is_mac /\ audio_buffer # << >>

\* line 118: if self.is_mac and audio_buffer and not self.interrupt_flag.is_set()
FlushGuard == is_mac /\ audio_buffer # << >> /\ ~interrupt_flag

\* lines 116-122: the poll timed out; on Mac flush what was accumulated
PlayerFlush ==
    /\ player_pc = "get" /\ ~stop_flag
    /\ audio_queue = << >>
    /\ FlushGuard
    /\ wr' = [site |-> "flush", eps |-> Epochs(audio_buffer), at |-> cancels]
    /\ pending' = handed(audio_buffer)
    /\ audio_buffer' = << >>
    /\ player_pc' = "writing"
    /\ UNCHANGED <<audio_queue, audio_data, chunk_i>>
    /\ ThreadStep

\* lines 91-103 and 109-110: the check after the pop, then accumulate (Mac)
\* or enter the sub-chunk loop
PlayerCheck ==
    /\ player_pc = "popped"
    /\ IF interrupt_flag
       THEN /\ audio_buffer' = << >>
            /\ audio_data' = NoFrame
            /\ player_pc' = "get"
            /\ UNCHANGED chunk_i
       ELSE IF is_mac
       THEN LET buf == Append(audio_buffer, audio_data) IN
            /\ audio_data' = NoFrame
            /\ UNCHANGED chunk_i
            /\ IF Samples(buf) >= min_buffer_size
               THEN audio_buffer' = buf /\ player_pc' = "combined"
               ELSE audio_buffer' = buf /\ player_pc' = "get"
       ELSE /\ chunk_i' = 0
            /\ player_pc' = "chunk"
            /\ UNCHANGED <<audio_data, audio_buffer>>
    /\ UNCHANGED <<audio_queue, wr, pending>>
    /\ ThreadStep

\* lines 102-106: combined = concatenate(audio_buffer); audio_buffer = [];
\* write unless interrupted
PlayerCombined ==
    /\ player_pc = "combined"
    /\ audio_buffer' = << >>
    /\ IF ~interrupt_flag
       THEN /\ wr' = [site |-> "combined", eps |-> Epochs(audio_buffer), at |-> cancels]
            /\ pending' = handed(audio_buffer)
            /\ player_pc' = "writing"
       ELSE /\ wr' = wr
            /\ pending' = pending
            /\ player_pc' = "get"
    /\ UNCHANGED <<audio_queue, audio_data, chunk_i>>
    /\ ThreadStep

\* lines 110-114: one iteration of the sub-chunk loop
PlayerChunk ==
    /\ player_pc = "chunk"
    /\ IF interrupt_flag
       THEN /\ player_pc' = "get"
            /\ audio_data' = NoFrame
            /\ chunk_i' = 0
            /\ wr' = wr
            /\ pending' = pending
       ELSE /\ wr' = [site |-> "chunk", eps |-> {audio_data.ep}, at |-> cancels]
            /\ pending' = IF chunk_i = 0 THEN handed(<<audio_data>>) ELSE pending
            /\ player_pc' = "writing"
            /\ UNCHANGED <<audio_data, chunk_i>>
    /\ UNCHANGED <<audio_queue, audio_buffer>>
    /\ ThreadStep

\* stream.write returns, or raises.  The writes of lines 106 and 114 are in
\* the try of line 86: line 123 (except Exception) catches what they raise and
\* the loop goes on.  The write of line 122 is in the handler of line 116
\* (except queue.Empty), which no clause of that try covers: what it raises
\* leaves the loop and ends the thread, and lines 127-132 do not run.
PlayerWriteEnd(raised) ==
    /\ player_pc = "writing"
    /\ wr' = NoWrite
    /\ IF wr.site = "chunk" /\ ~raised /\ chunk_i + chunk_size < audio_data.n
       THEN /\ chunk_i' = chunk_i + chunk_size
            /\ player_pc' = "chunk"
            /\ UNCHANGED audio_data
       ELSE /\ chunk_i' = 0
            /\ audio_data' = NoFrame
            /\ player_pc' = IF raised /\ wr.site = "flush" THEN "dead" ELSE "get"
    /\ UNCHANGED <<audio_queue, audio_buffer, pending>>
    /\ ThreadStep

\* lines 85, 127-132: the loop sees stop_flag; the stream is stopped and closed
PlayerExit ==
    /\ player_pc = "get" /\ stop_flag
    /\ player_pc' = "done"
    /\ UNCHANGED <<audio_queue, audio_data, chunk_i, audio_buffer, wr, pending>>
    /\ ThreadStep

PlayerThread ==
    \/ PlayerGet
    \/ PlayerFlush
    \/ PlayerCheck
    \/ PlayerCombined
    \/ PlayerChunk
    \/ \E raised \in BOOLEAN : PlayerWriteEnd(raised)
    \/ PlayerExit

Timer == \E t \in timers : ResetInterrupt(t)

-----------------------------------------------------------------------------
(* The AudioPlayer driven through its public methods *)

ApiStart ==
    /\ player_pc = "idle"
    /\ stop_flag' = FALSE
    /\ interrupt_flag' = FALSE
    /\ player_pc' = "get"
    /\ ev' = [type |-> "start"] /\ out' = << >>
    /\ UNCHANGED <<is_mac, pending, audio_queue, timers, audio_data, chunk_i, audio_buffer, wr,
                   cancels, sessionVars>>
    /\ printed' = << >>
    /\ UNCHANGED <<echoVars, runVars, convVars>>

ApiPlay(audio_bytes) ==
    /\ Len(audio_queue) < MaxQueue
    /\ audio_queue' = play(audio_bytes)
    /\ pending' = enqueued(audio_queue')
    /\ ev' = [type |-> "play", audio_bytes |-> audio_bytes] /\ out' = << >>
    /\ UNCHANGED <<is_mac, stop_flag, interrupt_flag, timers, cancels, threadVars, sessionVars>>
    /\ printed' = << >>
    /\ UNCHANGED <<echoVars, runVars, convVars>>

ApiCancel ==
    /\ cancels < MaxCancels
    /\ cancel_current
    /\ ev' = [type |-> "cancel_current"] /\ out' = << >>
    /\ UNCHANGED <<is_mac, stop_flag, threadVars, sessionVars>>
    /\ printed' = << >>
    /\ UNCHANGED <<echoVars, runVars, convVars>>

\* AudioPlayer.stop (the join is a wait of at most one second)
ApiStop ==
    /\ player_pc # "idle" /\ ~stop_flag
    /\ stop_flag' = TRUE
    /\ ev' = [type |-> "stop"] /\ out' = << >>
    /\ UNCHANGED <<is_mac, pending, audio_queue, interrupt_flag, timers, cancels, threadVars, sessionVars>>
    /\ printed' = << >>
    /\ UNCHANGED <<echoVars, runVars, convVars>>

-----------------------------------------------------------------------------
(* handle_tool_call (src/agent/tools.py) *)

\* The tools of handle_tool_call that take no argument, with the lookup each calls
NoArgTools == {"get_hospital_info", "get_facilities", "get_all_doctors",
               "get_specialties", "get_second_opinion_info"}

\* event.arguments, by what json.loads and the lookups make of it:
\*   EMPTY       the empty string (falsy: the handler takes {})
\*   MALFORMED   not JSON (json.loads raises)
\*   NON_DICT    JSON that is no object, such as [] or null (.get raises)
\*   NO_KEY      an object without the tool's key (the lookup gets "")
\*   STR_MATCH   the key holds a string found in the data
\*   STR_NOMATCH the key holds a string not found in the data
\*   NON_STR     the key holds a number or null (.lower() raises)
ArgTexts == {"EMPTY", "MALFORMED", "NON_DICT", "NO_KEY", "STR_MATCH",
             "STR_NOMATCH", "NON_STR"}

\* voice_agent.py line 519: json.loads(event.arguments) if event.arguments else {}
json_loads(arguments) ==
    IF arguments = "EMPTY" THEN [raised |-> FALSE, value |-> "NO_KEY"]
    ELSE IF arguments = "MALFORMED" THEN [raised |-> TRUE, value |-> "NO_KEY"]
    ELSE [raised |-> FALSE, value |-> arguments]

\* get_doctor_details / get_department_info after arguments.get(key, ""):
\* "" is a substring of every name, so a missing key finds the first entry.
keyed_lookup(tool_name, arguments, not_found) ==
    IF arguments \in {"NON_DICT", "NON_STR"}
    THEN [raised |-> TRUE, text |-> <<"raised">>]
    ELSE IF arguments = "STR_NOMATCH"
    THEN [raised |-> FALSE, text |-> <<not_found>>]
    ELSE [raised |-> FALSE, text |-> <<"data", tool_name>>]

\* the if/elif chain of handle_tool_call, lines 117-141
tool_body(tool_name, arguments) ==
    IF tool_name \in NoArgTools
    THEN [raised |-> FALSE, text |-> <<"data", tool_name>>]
    ELSE IF tool_name = "get_doctor_details"
    THEN keyed_lookup(tool_name, arguments, "Doctor not found")
    ELSE IF tool_name = "get_department_info"
    THEN keyed_lookup(tool_name, arguments, "Department not found")
    ELSE [raised |-> FALSE, text |-> <<"Unknown tool", tool_name>>]

\* handle_tool_call as a bug would have it: no except clause
handle_tool_call_no_except(tool_name, arguments) == tool_body(tool_name, arguments)

\* handle_tool_call, lines 105-144: try ... except Exception -> "Error executing tool"
handle_tool_call(tool_name, arguments) ==
    LET r == tool_body(tool_name, arguments) IN
    IF r.raised THEN [raised |-> FALSE, text |-> <<"Error executing tool">>]
    ELSE r

-----------------------------------------------------------------------------
(* RealtimeVoiceAgent *)

ECHO_COOLDOWN == 8     \* tenths of a second

SpeechStarted == "input_audio_buffer.speech_started"
AudioDeltaTypes == {"response.audio.delta", "response.output_audio.delta"}
ToolCallDone == "response.function_call_arguments.done"

\* the inbound events of the model
PlainTypes == {SpeechStarted, "response.cancelled", "session.created",
               "session.updated", "response.done", "rate_limits.updated"}

\* str(event.error) of an error event
ErrorMessages == {"response_cancel_not_active", "server_error"}

\* event.delta of an audio delta: base64 text, by whether it decodes and to
\* how many bytes
AudioDeltas == {[valid |-> FALSE, bytes |-> 0]} \cup
               {[valid |-> TRUE, bytes |-> b] : b \in {0, 3, 3600}}

ToolCalls == {[name |-> "get_facilities", arguments |-> "EMPTY", call_id |-> "c1"],
              [name |-> "get_facilities", arguments |-> "MALFORMED", call_id |-> "c1"],
              [name |-> "get_all_doctors", arguments |-> "NON_DICT", call_id |-> "c1"],
              [name |-> "get_doctor_details", arguments |-> "STR_MATCH", call_id |-> "c2"],
              [name |-> "get_doctor_details", arguments |-> "NON_STR", call_id |-> "c1"],
              [name |-> "get_department_info", arguments |-> "STR_NOMATCH", call_id |-> "c1"],
              [name |-> "get_department_info", arguments |-> "NON_DICT", call_id |-> "c2"],
              [name |-> "book_appointment", arguments |-> "NO_KEY", call_id |-> "c1"]}

\* base64.b64decode(event.delta)
b64decode(delta) == [raised |-> ~delta.valid, bytes |-> delta.bytes]

Saturate(t) == IF t > ECHO_COOLDOWN THEN ECHO_COOLDOWN ELSE t

\* the clock advances by a tenth of a second
Tick ==
    /\ time_since_ai_stopped < ECHO_COOLDOWN
    /\ time_since_ai_stopped' = Saturate(time_since_ai_stopped + 1)
    /\ ev' = NoEvent /\ out' = << >>
    /\ UNCHANGED <<playerVars, session_pc, connected, ai_speaking, session_updates, tool>>
    /\ printed' = << >>
    /\ UNCHANGED <<echoVars, runVars, convVars>>

\* run_async, lines 579-584: start the player, create the tasks
RunAsync ==
    /\ session_pc = "start"
    /\ stop_flag' = FALSE
    /\ interrupt_flag' = FALSE
    /\ player_pc' = "get"
    /\ session_pc' = "connecting"
    /\ run_pc' = "gather"
    /\ capture_pc' = "running"
    /\ ev' = NoEvent /\ out' = << >>
    /\ UNCHANGED <<is_mac, pending, audio_queue, timers, audio_data, chunk_i, audio_buffer, wr,
                   cancels, connected, ai_speaking, time_since_ai_stopped,
                   session_updates, tool>>
    /\ printed' = << >>
    /\ UNCHANGED <<echoVars, convVars, end_sessions, reports>>

\* lines 560-564: except Exception as e: print("[ERROR] Connection error")
ConnectionError == "[ERROR] Connection error"

\* line 367 as a bug would have it: the session is left unconfigured
session_update_skipped(outcome) == << >>

\* lines 367-382: await conn.session.update(...), called in the step that set
\* self.connected, before the task yields
session_update(outcome) ==
    << [type |-> "session.update", raised |-> outcome = "update_failed"] >>

\* lines 357-378: connect, then the one session.update; either may raise,
\* and the handler then ends in its except clause (lines 560-564)
Connect(outcome) ==
    /\ session_pc = "connecting"
    /\ IF outcome = "connect_failed"
       THEN /\ session_pc' = "ended"
            /\ out' = << >>
            /\ UNCHANGED <<connected, session_updates>>
       ELSE /\ connected' = TRUE
            /\ out' = session_update(outcome)
            /\ session_updates' = session_updates + Len(out')
            /\ session_pc' = IF outcome = "update_failed" THEN "ended" ELSE "loop"
    /\ printed' = IF outcome = "ok" THEN << >> ELSE <<ConnectionError>>
    /\ reports' = reports \o printed'
    /\ ev' = NoEvent
    /\ UNCHANGED <<playerVars, ai_speaking, time_since_ai_stopped, tool>>
    /\ UNCHANGED <<echoVars, convVars, run_pc, capture_pc, end_sessions>>

\* line 395 as a bug would have it: the cooldown not consulted
probable_echo_no_cooldown == ai_speaking

\* line 395: self.ai_speaking or time_since_ai_stopped < self.ECHO_COOLDOWN
probable_echo == ai_speaking \/ time_since_ai_stopped < ECHO_COOLDOWN

\* lines 403-406 as a bug would have it: the failure of the cancel escapes
after_cancel_unguarded(raised) == IF raised THEN "ended" ELSE "loop"

\* lines 403-408: try: await conn.response.cancel() except: pass; continue
after_cancel(raised) == "loop"

\* lines 389-408: speech started
HandleSpeechStarted(e, raised) ==
    /\ session_pc = "loop" /\ ev' = e
    /\ e.type = SpeechStarted
    /\ IF probable_echo
       THEN /\ out' = << >>
            /\ printed' = << >>
            /\ UNCHANGED <<playerVars, sessionVars, cancelled_in_flight>>
       ELSE /\ cancels < MaxCancels
            /\ cancel_current
            /\ ai_speaking' = FALSE
            /\ out' = << [type |-> "response.cancel", raised |-> raised] >>
            /\ cancelled_in_flight' = TRUE
            /\ printed' = <<"[Interrupted] Listening...">>
            /\ session_pc' = after_cancel(raised)
            /\ UNCHANGED <<is_mac, stop_flag, threadVars, connected,
                           time_since_ai_stopped, session_updates, tool>>
    /\ UNCHANGED <<echoVars, runVars, turnVars>>

\* lines 411-415: response cancelled
HandleResponseCancelled(e) ==
    /\ session_pc = "loop" /\ ev' = e
    /\ e.type = "response.cancelled"
    /\ cancels < MaxCancels
    /\ cancel_current
    /\ ai_speaking' = FALSE
    /\ time_since_ai_stopped' = 0
    /\ out' = << >>
    /\ cancelled_in_flight' = FALSE
    /\ UNCHANGED <<is_mac, stop_flag, threadVars, session_pc, connected,
                   session_updates, tool>>
    /\ printed' = << >>
    /\ UNCHANGED <<echoVars, runVars, turnVars>>

\* lines 436-440: audio delta.  ai_speaking is set before the payload is
\* decoded; a payload that does not decode raises out of the event loop.
HandleAudioDelta(e) ==
    /\ session_pc = "loop" /\ ev' = e
    /\ e.type \in AudioDeltaTypes
    /\ ai_speaking' = TRUE
    /\ LET audio_bytes == b64decode(e.delta) IN
       IF audio_bytes.raised
       THEN /\ session_pc' = "ended"
            /\ UNCHANGED <<audio_queue, pending>>
       ELSE /\ Len(audio_queue) < MaxQueue
            /\ audio_queue' = play(audio_bytes.bytes)
            /\ pending' = enqueued(audio_queue')
            /\ UNCHANGED session_pc
    /\ out' = << >>
    /\ printed' = IF b64decode(e.delta).raised THEN <<ConnectionError>> ELSE << >>
    /\ reports' = reports \o printed'
    /\ UNCHANGED <<is_mac, stop_flag, interrupt_flag, timers, cancels, threadVars,
                   connected, time_since_ai_stopped, session_updates, tool>>
    /\ UNCHANGED <<echoVars, convVars, run_pc, capture_pc, end_sessions>>

MAX_TURNS_BEFORE_SUMMARY == 4

\* the call of line 242 to the auxiliary model
ChatCompletion(raised) == [type |-> "chat.completions.create", raised |-> raised]

\* lines 272-274 as a bug would have it: a failed call clears the history
summarize_conversation_forgetful(recent, ok) ==
    IF recent = << >>
    THEN [summary |-> conversation_summary, recent |-> recent, out |-> << >>]
    ELSE IF ~ok
    THEN [summary |-> conversation_summary, recent |-> << >>,
          out |-> <<ChatCompletion(TRUE)>>]
    ELSE [summary |-> conversation_summary + 1, recent |-> << >>,
          out |-> <<ChatCompletion(FALSE)>>]

\* summarize_conversation, lines 226-274, as what it leaves in
\* conversation_summary and recent_exchanges and the call it makes; ok tells
\* whether the chat completion of line 242 returned (its exception is caught
\* at line 272).  With no exchange recorded it returns at line 232.
summarize_conversation(recent, ok) ==
    IF recent = << >>
    THEN [summary |-> conversation_summary, recent |-> recent, out |-> << >>]
    ELSE IF ~ok
    THEN [summary |-> conversation_summary, recent |-> recent,
          out |-> <<ChatCompletion(TRUE)>>]
    ELSE [summary |-> conversation_summary + 1, recent |-> << >>,
          out |-> <<ChatCompletion(FALSE)>>]

\* lines 496-502: response done, and truncate_old_items, lines 296-305
HandleResponseDone(e) ==
    /\ session_pc = "loop" /\ ev' = e
    /\ e.type = "response.done"
    /\ ai_speaking' = FALSE
    /\ time_since_ai_stopped' = 0
    /\ IF turn_count >= MAX_TURNS_BEFORE_SUMMARY * 2
       THEN \E ok \in BOOLEAN :
              LET after == summarize_conversation(recent_exchanges, ok) IN
              /\ conversation_summary' = after.summary
              /\ recent_exchanges' = after.recent
              /\ turn_count' = 0
              /\ turns_since_summary' = 0
              /\ out' = after.out
       ELSE /\ UNCHANGED <<turn_count, turns_since_summary, recent_exchanges,
                           conversation_summary>>
            /\ out' = << >>
    /\ UNCHANGED <<playerVars, session_pc, connected, session_updates, tool>>
    /\ printed' = << >>
    /\ cancelled_in_flight' = FALSE
    /\ UNCHANGED <<echoVars, runVars, acc_items, arrived>>

TranscriptDeltaTypes == {"response.audio_transcript.delta",
                         "response.output_audio_transcript.delta"}
TranscriptDoneTypes == {"response.audio_transcript.done",
                        "response.output_audio_transcript.done"}
SpeechStopped == "input_audio_buffer.speech_stopped"

\* getattr(event, 'item_id', 'default')
ItemIds == {"item_1", "default"}

\* event.delta of a transcript delta; a text is the sequence of its pieces
DeltaTexts == {"a", "b"}

\* the length of all the texts in acc_items together
TotalText ==
    LET ids == DOMAIN acc_items
        T[S \in SUBSET ids] ==
            IF S = {} THEN 0
            ELSE LET i == CHOOSE x \in S : TRUE IN Len(acc_items[i]) + T[S \ {i}]
    IN T[ids]

\* lines 448-449 as a bug would have it: the delta is put in front
accumulate_in_front(item_id, delta) ==
    [i \in DOMAIN acc_items \cup {item_id} |->
        IF i # item_id THEN acc_items[i]
        ELSE IF i \in DOMAIN acc_items THEN <<delta>> \o acc_items[i]
        ELSE <<delta>>]

\* lines 448-449: text = acc_items.get(item_id, ""); acc_items[item_id] =
\* text + event.delta
accumulate(item_id, delta) ==
    [i \in DOMAIN acc_items \cup {item_id} |->
        IF i # item_id THEN acc_items[i]
        ELSE IF i \in DOMAIN acc_items THEN acc_items[i] \o <<delta>>
        ELSE <<delta>>]

\* lines 444-452: transcript delta
HandleTranscriptDelta(e) ==
    /\ session_pc = "loop" /\ ev' = e
    /\ e.type \in TranscriptDeltaTypes
    /\ TotalText < MaxDeltas
    /\ acc_items' = accumulate(e.item_id, e.delta)
    /\ arrived' = Append(arrived, [item_id |-> e.item_id, delta |-> e.delta])
    /\ UNCHANGED cancelled_in_flight
    /\ out' = << >>
    /\ printed' = << >>
    /\ UNCHANGED <<playerVars, sessionVars, echoVars, runVars, turn_count,
                   turns_since_summary,
                   recent_exchanges, conversation_summary>>

\* line 462: if item_id in acc_items
counts_as_turn(item_id) == item_id \in DOMAIN acc_items

\* lines 454-493: transcript done
HandleTranscriptDone(e, ok) ==
    /\ session_pc = "loop" /\ ev' = e
    /\ e.type \in TranscriptDoneTypes
    /\ turn_count < MaxTurns
    /\ ai_speaking' = FALSE
    /\ time_since_ai_stopped' = 0
    /\ IF counts_as_turn(e.item_id)
       THEN LET ai_response == IF e.item_id \in DOMAIN acc_items
                               THEN acc_items[e.item_id] ELSE << >>
                recent == IF recent_exchanges = << >> THEN recent_exchanges
                          ELSE [recent_exchanges EXCEPT ![Len(recent_exchanges)] =
                                                         ai_response]
                after == IF turn_count + 1 >= MAX_TURNS_BEFORE_SUMMARY
                         THEN summarize_conversation(recent, ok)
                         ELSE [summary |-> conversation_summary, recent |-> recent,
                               out |-> << >>]
            IN /\ printed' = << <<"Assistant:", ai_response>> >>
               /\ turn_count' = turn_count + 1
               /\ turns_since_summary' =
                      IF turn_count + 1 >= MAX_TURNS_BEFORE_SUMMARY THEN 0
                      ELSE turns_since_summary + 1
               /\ recent_exchanges' = after.recent
               /\ conversation_summary' = after.summary
               /\ out' = after.out
       ELSE /\ printed' = << >>
            /\ out' = << >>
            /\ UNCHANGED <<turn_count, turns_since_summary, recent_exchanges,
                           conversation_summary>>
    /\ UNCHANGED <<playerVars, session_pc, connected, session_updates, tool,
                   echoVars, runVars, acc_items, arrived, cancelled_in_flight>>

\* lines 505-511: speech stopped
HandleSpeechStopped(e) ==
    /\ session_pc = "loop" /\ ev' = e
    /\ e.type = SpeechStopped
    /\ Len(recent_exchanges) < MaxExchanges
    /\ recent_exchanges' = Append(recent_exchanges, << >>)
    /\ out' = << >>
    /\ printed' = <<"[Processing...]">>
    /\ UNCHANGED <<playerVars, sessionVars, echoVars, runVars, acc_items,
                   turn_count, turns_since_summary, conversation_summary, arrived,
                   cancelled_in_flight>>

\* lines 551-556 as a bug would have it: an error makes the session reconfigure
session_updates_on_error_retry == session_updates + 1

\* lines 551-556: an error event sends nothing
session_updates_on_error == session_updates

\* line 554 as a bug would have it: every error is printed
error_is_benign_never(error_msg) == FALSE

\* line 554: 'response_cancel_not_active' in error_msg
error_is_benign(error_msg) == error_msg = "response_cancel_not_active"

\* what the handlers of lines 418-433 and 551-556 print
inert_print(e) ==
    CASE e.type = "session.updated" -> <<"READY - Start speaking into your microphone">>
      [] e.type = "error" /\ ~error_is_benign(e.error) ->
            << <<"[ERROR] API", e.error>> >>
      [] OTHER -> << >>

\* lines 418-433, 551-556, and the fall-through of an unrecognized type:
\* events that change no state of the session
HandleInert(e) ==
    /\ session_pc = "loop" /\ ev' = e
    /\ e.type \in {"session.created", "session.updated", "error", "rate_limits.updated"}
    /\ session_updates' = IF e.type = "error" THEN session_updates_on_error
                          ELSE session_updates
    /\ out' = << >>
    /\ UNCHANGED <<playerVars, session_pc, connected, ai_speaking,
                   time_since_ai_stopped, tool>>
    /\ printed' = inert_print(e)
    /\ UNCHANGED <<echoVars, runVars, convVars>>

\* lines 534-540 as a bug would have it: the item does not carry the call id
tool_result_item_no_id(call_id, result) ==
    [type |-> "function_call_output", call_id |-> "", output |-> result.text,
     raised |-> FALSE]

\* lines 534-540: the item of conversation.item.create
tool_result_item(call_id, result) ==
    [type |-> "function_call_output", call_id |-> call_id, output |-> result.text,
     raised |-> FALSE]

\* lines 515-540: parse, dispatch, log, and initiate the tool-result item;
\* an exception up to here is caught at line 545 and the loop continues
ToolBegin(e) ==
    /\ session_pc = "loop"
    /\ e \in ToolCalls
    /\ LET arguments == json_loads(e.arguments)
           result == handle_tool_call(e.name, arguments.value)
           event == [type |-> ToolCallDone, name |-> e.name,
                     arguments |-> e.arguments, call_id |-> e.call_id]
       IN IF arguments.raised \/ result.raised
          THEN /\ ev' = event
               /\ out' = << >>
               /\ UNCHANGED <<session_pc, tool>>
          ELSE /\ tool' = [event |-> event,
                           sent |-> << tool_result_item(e.call_id, result) >>]
               /\ session_pc' = "tool_result"
               /\ ev' = NoEvent
               /\ out' = << >>
    /\ UNCHANGED <<playerVars, connected, ai_speaking, time_since_ai_stopped,
                   session_updates>>
    /\ printed' = << >>
    /\ UNCHANGED <<echoVars, runVars, convVars>>

\* lines 534-543: conversation.item.create returns and response.create is
\* initiated, or it raises (line 545) and the loop continues
ToolResultSent(raised) ==
    /\ session_pc = "tool_result"
    /\ IF raised
       THEN /\ ev' = tool.event
            /\ out' = [tool.sent EXCEPT ![1].raised = TRUE]
            /\ tool' = NoEvent
            /\ session_pc' = "loop"
       ELSE /\ tool' = [tool EXCEPT !.sent = Append(@, [type |-> "response.create",
                                                         raised |-> FALSE])]
            /\ session_pc' = "tool_continue"
            /\ ev' = NoEvent
            /\ out' = << >>
    /\ UNCHANGED <<playerVars, connected, ai_speaking, time_since_ai_stopped,
                   session_updates>>
    /\ printed' = << >>
    /\ UNCHANGED <<echoVars, runVars, convVars>>

\* lines 543-548: response.create returns or raises; continue
ToolContinued(raised) ==
    /\ session_pc = "tool_continue"
    /\ ev' = tool.event
    /\ out' = [tool.sent EXCEPT ![2].raised = raised]
    /\ tool' = NoEvent
    /\ session_pc' = "loop"
    /\ UNCHANGED <<playerVars, connected, ai_speaking, time_since_ai_stopped,
                   session_updates>>
    /\ printed' = << >>
    /\ UNCHANGED <<echoVars, runVars, convVars>>

\* line 387: the connection closes and the iteration over it ends, normally
\* or (raised) by an exception that lines 560-564 catch and print
ConnectionClosed(raised) ==
    /\ session_pc = "loop"
    /\ session_pc' = "ended"
    /\ ev' = NoEvent /\ out' = << >>
    /\ printed' = IF raised THEN <<ConnectionError>> ELSE << >>
    /\ reports' = reports \o printed'
    /\ UNCHANGED <<playerVars, connected, ai_speaking, time_since_ai_stopped,
                   session_updates, tool>>
    /\ UNCHANGED <<echoVars, convVars, run_pc, capture_pc, end_sessions>>

\* lines 589-595 and 597-604, the whole teardown after Ctrl+C in one step
\* (SpecRun takes it step by step): the tasks are cancelled, the finally
\* clause stops the player and ends the cost session, and run() ends the
\* cost session again
KeyboardInterrupt ==
    /\ session_pc \notin {"start", "stopped"}
    /\ session_pc' = "stopped"
    /\ stop_flag' = TRUE
    /\ tool' = NoEvent
    /\ run_pc' = "interrupted"
    /\ capture_pc' = "ended"
    /\ end_sessions' = end_sessions + 2
    /\ ev' = NoEvent /\ out' = << >>
    /\ printed' = <<"Voice agent stopped.", "Goodbye!">>
    /\ UNCHANGED <<is_mac, pending, audio_queue, interrupt_flag, timers, cancels, threadVars,
                   connected, ai_speaking, time_since_ai_stopped, session_updates>>
    /\ UNCHANGED <<echoVars, convVars, reports>>

-----------------------------------------------------------------------------
(* run(), run_async() and send_mic_audio, step by step *)

\* line 349: print("Audio capture error")
AudioCaptureError == "Audio capture error"

\* lines 348-352: except Exception: print; finally: stream.stop() and
\* stream.close(), which end the task, by an exception if they raise
capture_after_error(stop_raised) == IF stop_raised THEN "failed" ELSE "ended"

\* lines 339-344 as a bug would have it: nothing is sent while the AI speaks
may_send_half_duplex == connected /\ ~ai_speaking

\* lines 339-344: await self.connected.wait(), then if self.connection
may_send == connected

\* lines 322-344 as a bug would have it: a frame sent marks the AI silent
ai_speaking_after_capture_cleared == FALSE

\* send_mic_audio, lines 307-352, assigns no attribute of the agent
ai_speaking_after_capture == ai_speaking

\* send_mic_audio, lines 322-344: one pass of the loop.  connected.wait()
\* (line 339) lets the pass through once the connection was opened, and
\* blocks for ever if it never is.  self.connection is never reset, so a
\* pass after the connection has closed appends to a closed connection,
\* which raises; an append to the open connection may raise as well.
CaptureSend(raised, stop_raised) ==
    /\ capture_pc = "running"
    /\ may_send
    /\ session_pc = "ended" => raised
    /\ stop_raised => raised
    /\ out' = << [type |-> "input_audio_buffer.append", raised |-> raised] >>
    /\ capture_pc' = IF raised THEN capture_after_error(stop_raised) ELSE capture_pc
    /\ printed' = IF raised THEN <<AudioCaptureError>> ELSE << >>
    /\ reports' = reports \o printed'
    /\ ev' = NoEvent
    /\ ai_speaking' = ai_speaking_after_capture
    /\ UNCHANGED <<playerVars, session_pc, connected, time_since_ai_stopped,
                   session_updates, tool, convVars, echoVars, run_pc,
                   end_sessions>>

\* send_mic_audio, line 327: stream.read raises.  The try of line 321 is
\* around the whole loop, so lines 348-352 run and the task ends.
CaptureReadFailed(stop_raised) ==
    /\ capture_pc = "running"
    /\ capture_pc' = capture_after_error(stop_raised)
    /\ out' = << >>
    /\ printed' = <<AudioCaptureError>>
    /\ reports' = reports \o printed'
    /\ ev' = NoEvent
    /\ UNCHANGED <<playerVars, sessionVars, convVars, echoVars, run_pc,
                   end_sessions>>

\* run(), lines 599-601: Ctrl+C.  asyncio cancels the main task, and gather
\* (line 586) cancels the two tasks: each is resumed with CancelledError at
\* the await it is suspended in and runs nothing else.
Interrupt ==
    /\ run_pc = "gather"
    /\ run_pc' = "cancelling"
    /\ capture_pc' = IF capture_pc = "running" THEN "cancelled" ELSE capture_pc
    /\ session_pc' = IF session_pc = "ended" THEN session_pc ELSE "cancelled"
    /\ tool' = NoEvent
    /\ ev' = NoEvent /\ out' = << >> /\ printed' = << >>
    /\ UNCHANGED <<playerVars, connected, ai_speaking, time_since_ai_stopped,
                   session_updates, convVars, echoVars, end_sessions, reports>>

\* send_mic_audio, lines 346-352: except CancelledError: pass; the finally
\* clause stops and closes the input stream
CaptureCancelled(stop_raised) ==
    /\ capture_pc = "cancelled"
    /\ capture_pc' = IF stop_raised THEN "failed" ELSE "ended"
    /\ ev' = NoEvent /\ out' = << >> /\ printed' = << >>
    /\ UNCHANGED <<playerVars, sessionVars, convVars, echoVars, run_pc,
                   end_sessions, reports>>

\* the finally clause of run_async, which awaits nothing
InFinally == {"finally", "finally_cancelled", "finally_raised",
              "end_session", "end_session_cancelled", "end_session_raised"}

\* handle_realtime_connection, lines 357 and 558-564: the async with closes
\* the connection on the way out, and except CancelledError passes; a close
\* that raises is caught and printed by lines 560-561
ConnectionCancelled(raised) ==
    /\ session_pc = "cancelled"
    /\ run_pc \notin InFinally
    /\ session_pc' = "ended"
    /\ printed' = IF raised THEN <<ConnectionError>> ELSE << >>
    /\ reports' = reports \o printed'
    /\ ev' = NoEvent /\ out' = << >>
    /\ UNCHANGED <<playerVars, connected, ai_speaking, time_since_ai_stopped,
                   session_updates, tool, convVars, echoVars, run_pc, capture_pc,
                   end_sessions>>

\* line 586 as a bug would have it: the first task to end ends the wait
tasks_done_first == capture_pc \in {"ended", "failed"} \/ session_pc = "ended"

\* line 586: await asyncio.gather(audio_task, connection_task)
tasks_done ==
    \/ capture_pc = "failed"
    \/ capture_pc = "ended" /\ session_pc = "ended"

\* run_async, lines 586-590: gather returns once both tasks have ended, or
\* raises CancelledError then (line 588 passes it), or raises at once the
\* exception a task ended by, the other task still running; asyncio.run
\* cancels a task that is left when run_async has ended.  On to the finally
\* clause.
GatherDone ==
    /\ run_pc \in {"gather", "cancelling"}
    /\ tasks_done
    /\ run_pc' = IF capture_pc = "failed" THEN "finally_raised"
                 ELSE IF run_pc = "gather" THEN "finally" ELSE "finally_cancelled"
    /\ session_pc' = IF session_pc = "ended" THEN session_pc ELSE "cancelled"
    /\ tool' = NoEvent
    /\ ev' = NoEvent /\ out' = << >> /\ printed' = << >>
    /\ UNCHANGED <<playerVars, connected, ai_speaking, time_since_ai_stopped,
                   session_updates, convVars, echoVars, capture_pc, end_sessions,
                   reports>>

\* run_async, line 591, and AudioPlayer.stop, lines 183-187: set stop_flag
\* and join the playback thread for at most a second
PlayerStop ==
    /\ run_pc \in {"finally", "finally_cancelled", "finally_raised"}
    /\ stop_flag' = TRUE
    /\ run_pc' = CASE run_pc = "finally" -> "end_session"
                   [] run_pc = "finally_cancelled" -> "end_session_cancelled"
                   [] run_pc = "finally_raised" -> "end_session_raised"
    /\ ev' = [type |-> "stop"]
    /\ out' = << >> /\ printed' = << >>
    /\ UNCHANGED <<is_mac, pending, audio_queue, interrupt_flag, timers, cancels, threadVars,
                   sessionVars, convVars, echoVars, capture_pc, end_sessions, reports>>

\* run_async, lines 592-594: cost_tracker.end_session() and the last print;
\* then run_async returns, or the CancelledError of Ctrl+C reaches run() as
\* KeyboardInterrupt, or the exception gather raised leaves run()
EndSession ==
    /\ run_pc \in {"end_session", "end_session_cancelled", "end_session_raised"}
    /\ end_sessions' = end_sessions + 1
    /\ run_pc' = CASE run_pc = "end_session" -> "returned"
                   [] run_pc = "end_session_cancelled" -> "run_except"
                   [] run_pc = "end_session_raised" -> "crashed"
    /\ printed' = <<"Voice agent stopped.">>
    /\ ev' = NoEvent /\ out' = << >>
    /\ UNCHANGED <<playerVars, sessionVars, convVars, echoVars, capture_pc, reports>>

\* run, lines 601-604: except KeyboardInterrupt: end_session() once more
RunExcept ==
    /\ run_pc = "run_except"
    /\ end_sessions' = end_sessions + 1
    /\ run_pc' = "interrupted"
    /\ printed' = <<"Goodbye!">>
    /\ ev' = NoEvent /\ out' = << >>
    /\ UNCHANGED <<playerVars, sessionVars, convVars, echoVars, capture_pc, reports>>

InboundEvents ==
    {[type |-> t] : t \in PlainTypes \cup {SpeechStopped}} \cup
    {[type |-> "error", error |-> m] : m \in ErrorMessages} \cup
    {[type |-> t, delta |-> d] : t \in AudioDeltaTypes, d \in AudioDeltas}

-----------------------------------------------------------------------------
(* EchoCanceller (src/utils/echo_canceller.py) *)

\* Sizes of the model, standing for int(sample_rate * buffer_seconds) = 48000
\* and int(sample_rate * 0.3) = 7200 samples
buffer_size == 4
cooldown_samples == 5

\* A played slice of RMS 500, and captured frames of RMS 520 and RMS 1600
\* whose Pearson correlation with it is 0.8
Played500 == <<500, -500, 500, -500>>
Mic520 == <<728, -104, 104, -728>>
Mic1600 == <<2240, -320, 320, -2240>>

\* a captured frame of RMS 120 that follows the played slice sample by sample
\* (correlation 1, energy ratio 0.24), and one of RMS 20, below the noise floor
Mic120 == <<120, -120, 120, -120>>
Mic20 == <<20, -20>>

\* audio played through the speakers, as given to add_speaker_audio (int16)
SpeakerFrames == { << >>, <<100, -100>>, <<300, -300>>, <<600, -600>>, <<200>>,
                   Played500 }

\* captured frames, as given to process_mic_input (int16)
MicFrames == { << >>, <<50, -50>>, <<100, -100>>, <<300, -300>>, <<300, 300>>,
               <<600, -600>>, <<300>>, Mic520, Mic1600, Mic120, Mic20 }

Sum(a) ==
    LET S[k \in 0..Len(a)] == IF k = 0 THEN 0 ELSE S[k-1] + a[k]
    IN S[Len(a)]

SumSq(a) == Sum([k \in 1..Len(a) |-> a[k] * a[k]])

Dot(a, b) == Sum([k \in 1..Len(a) |-> a[k] * b[k]])

Abs(x) == IF x < 0 THEN -x ELSE x

RECURSIVE GCD(_, _)
GCD(x, y) == IF y = 0 THEN x ELSE GCD(y, x % y)

\* a, divided by the greatest common divisor of its samples
Scaled(a) ==
    LET G[k \in 0..Len(a)] == IF k = 0 THEN 0 ELSE GCD(G[k-1], Abs(a[k]))
        g == IF G[Len(a)] = 0 THEN 1 ELSE G[Len(a)]
    IN [k \in 1..Len(a) |-> a[k] \div g]

\* rms_below as a bug would have it: no noise floor
rms_never_below(a, level) == FALSE

\* np.sqrt(np.mean(a ** 2)) < level and > level.  The mean of an empty array
\* is nan, and every comparison with nan is False.
rms_below(a, level) == Len(a) > 0 /\ SumSq(a) < level * level * Len(a)

rms_above(a, level) == Len(a) > 0 /\ SumSq(a) > level * level * Len(a)

\* lines 97-104: energy_ratio = mic_energy / (speaker_energy + 1e-6), compared
\* with 2.5 and with 0.3, for speaker_energy > 100.  The slice has the length
\* of the frame unless the frame is empty (and its energy nan).  For the
\* integer samples of the model the 1e-6 decides only the case of exact
\* equality with 0.3, where the ratio falls just below it.
ratio_above_barge_in(mic, spk) ==
    Len(mic) > 0 /\ Len(mic) = Len(spk) /\ 4 * SumSq(mic) > 25 * SumSq(spk)
\* line 104 as a bug would have it: a much quieter frame is not let through
ratio_below_quiet_never(mic, spk) == FALSE

ratio_below_quiet(mic, spk) ==
    Len(mic) > 0 /\ Len(mic) = Len(spk) /\ 100 * SumSq(mic) <= 9 * SumSq(spk)

\* n * n * variance of a; np.std(a) > 0 is Var2(a) > 0 (nan > 0 is False)
Var2(a) == Len(a) * SumSq(a) - Sum(a) * Sum(a)
std_positive(a) == Len(a) > 0 /\ Var2(a) > 0

\* lines 119-125: |dot(mic_norm, speaker_norm) / len| > correlation_threshold
\* (0.6), the Pearson correlation of the two arrays, which does not depend on
\* the unit of either array.  np.dot of arrays of different lengths raises,
\* which line 128 catches.
\* line 125 as a bug would have it: any frame of the slice's length is blocked
correlation_above_nothing(mic, spk) == Len(mic) = Len(spk)

correlation_above_threshold(mic, spk) ==
    LET m == Scaled(mic)
        s == Scaled(spk)
        cov == Len(m) * Dot(m, s) - Sum(m) * Sum(s)
    IN /\ Len(m) = Len(s)
       /\ 25 * cov * cov > 9 * Var2(m) * Var2(s)

\* list(self.speaker_buffer)[-len(mic_audio):]  ([-0:] is the whole list)
speaker_recent(mic_audio) ==
    IF Len(mic_audio) = 0 THEN speaker_buffer
    ELSE SubSeq(speaker_buffer, Len(speaker_buffer) - Len(mic_audio) + 1,
                Len(speaker_buffer))

\* line 88 as a bug would have it: too little history blocks the frame
on_short_history_block == FALSE

\* lines 86-88: not enough speaker audio to compare - assume human
on_short_history == TRUE

\* lines 96-110 as a bug would have it: no barge-in rule
energy_decides_no_barge_in(mic_audio, spk, playing) ==
    /\ rms_above(spk, 100)
    /\ \/ ratio_below_quiet(mic_audio, spk)
       \/ ~playing

\* lines 96-110: with speaker_energy > 100, the frame is human when the mic is
\* more than 2.5 times louder, less than 0.3 times as loud, or nothing plays
energy_decides(mic_audio, spk, playing) ==
    /\ rms_above(spk, 100)
    /\ \/ ratio_above_barge_in(mic_audio, spk)
       \/ ratio_below_quiet(mic_audio, spk)
       \/ ~playing

\* samples_since_play counts on without bound; every value above
\* cooldown_samples behaves alike
since_play(n) == IF n > cooldown_samples THEN cooldown_samples + 1 ELSE n

\* process_mic_input, lines 71-133: the second component of its result, with
\* since the value of samples_since_play after line 72
is_likely_human(mic_audio, since) ==
    IF since > cooldown_samples /\ ~is_playing THEN TRUE
    ELSE IF rms_below(mic_audio, 100) THEN TRUE
    ELSE IF Len(speaker_buffer) < Len(mic_audio) THEN on_short_history
    ELSE LET spk == speaker_recent(mic_audio) IN
         IF energy_decides(mic_audio, spk, is_playing) THEN TRUE
         ELSE IF std_positive(mic_audio) /\ std_positive(spk)
                 /\ correlation_above_threshold(mic_audio, spk)
              THEN FALSE
              ELSE TRUE

\* the deque as a bug would have it: once full, it refuses new samples
First(a, n) == IF Len(a) <= n THEN a ELSE SubSeq(a, 1, n)

\* the deque keeps the last buffer_size samples
Last(a, n) == IF Len(a) <= n THEN a ELSE SubSeq(a, Len(a) - n + 1, Len(a))

EchoStep == /\ UNCHANGED <<playerVars, sessionVars, runVars, convVars, gateVars>>
            /\ out' = << >> /\ printed' = << >>

\* add_speaker_audio, lines 44-55
add_speaker_audio(audio) ==
    /\ is_playing' = TRUE
    /\ samples_since_play' = 0
    /\ speaker_buffer' = Last(speaker_buffer \o audio, buffer_size)
    /\ ev' = [type |-> "add_speaker_audio", audio |-> audio]
    /\ EchoStep

\* mark_playback_stopped, lines 57-60
mark_playback_stopped ==
    /\ is_playing' = FALSE
    /\ ev' = [type |-> "mark_playback_stopped"]
    /\ UNCHANGED <<speaker_buffer, samples_since_play>>
    /\ EchoStep

\* process_mic_input, lines 62-133
process_mic_input(mic_audio) ==
    /\ samples_since_play' = since_play(samples_since_play + Len(mic_audio))
    /\ ev' = [type |-> "process_mic_input", mic_audio |-> mic_audio,
              is_likely_human |->
                  is_likely_human(mic_audio,
                                  since_play(samples_since_play + Len(mic_audio)))]
    /\ UNCHANGED <<speaker_buffer, is_playing>>
    /\ EchoStep

NextEcho ==
    \/ \E audio \in SpeakerFrames : add_speaker_audio(audio)
    \/ mark_playback_stopped
    \/ \E mic_audio \in MicFrames : process_mic_input(mic_audio)

\* is_safe_to_detect_speech, lines 135-141
is_safe_to_detect_speech ==
    /\ ev' = [type |-> "is_safe_to_detect_speech",
              result |-> samples_since_play > cooldown_samples /\ ~is_playing]
    /\ UNCHANGED <<speaker_buffer, is_playing, samples_since_play>>
    /\ EchoStep

-----------------------------------------------------------------------------
(* SimpleEchoGate (src/utils/echo_canceller.py, lines 144-198) *)

\* Size of the model, standing for int(sample_rate * 0.6) = 14400 samples
gate_samples == 3

\* frame lengths given to process_samples
SampleCounts == 0..2

\* samples_since_ai_stopped counts on without bound; every value above
\* gate_samples behaves alike
since_ai_stopped(n) == IF n > gate_samples THEN gate_samples + 1 ELSE n

GateStep == /\ UNCHANGED <<playerVars, sessionVars, runVars, convVars,
                           speaker_buffer, is_playing, samples_since_play>>
            /\ out' = << >> /\ printed' = << >>

\* ai_started_speaking, lines 159-163
ai_started_speaking ==
    /\ is_ai_speaking' = TRUE
    /\ samples_since_ai_stopped' = 0
    /\ ev' = [type |-> "ai_started_speaking"]
    /\ GateStep

\* ai_stopped_speaking, lines 165-169
ai_stopped_speaking ==
    /\ is_ai_speaking' = FALSE
    /\ samples_since_ai_stopped' = 0
    /\ ev' = [type |-> "ai_stopped_speaking"]
    /\ GateStep

\* lines 177-181: the counter after process_samples(num_samples), and the
\* value the call returns
samples_after(num_samples) ==
    IF ~is_ai_speaking THEN since_ai_stopped(samples_since_ai_stopped + num_samples)
    ELSE samples_since_ai_stopped

process_samples_returns(num_samples) ==
    ~is_ai_speaking /\ samples_after(num_samples) > gate_samples

\* process_samples, lines 171-181
process_samples(num_samples) ==
    /\ samples_since_ai_stopped' = samples_after(num_samples)
    /\ ev' = [type |-> "process_samples", num_samples |-> num_samples,
              result |-> process_samples_returns(num_samples)]
    /\ UNCHANGED is_ai_speaking
    /\ GateStep

\* should_send_audio, lines 183-188
should_send_audio ==
    /\ ev' = [type |-> "should_send_audio", result |-> TRUE]
    /\ UNCHANGED gateVars
    /\ GateStep

\* lines 193-198: the string get_state returns
get_state_returns ==
    IF is_ai_speaking THEN [name |-> "AI_SPEAKING"]
    ELSE IF samples_since_ai_stopped < gate_samples
    THEN [name |-> "COOLDOWN", samples |-> samples_since_ai_stopped,
          gate_samples |-> gate_samples]
    ELSE [name |-> "LISTENING"]

\* get_state, lines 190-198
get_state ==
    /\ ev' = [type |-> "get_state", result |-> get_state_returns]
    /\ UNCHANGED gateVars
    /\ GateStep

\* the two discriminators, each driven through its public methods
NextGate ==
    \/ add_speaker_audio(<<100, -100>>)
    \/ mark_playback_stopped
    \/ process_mic_input(<<50, -50>>)
    \/ is_safe_to_detect_speech
    \/ ai_started_speaking
    \/ ai_stopped_speaking
    \/ \E num_samples \in SampleCounts : process_samples(num_samples)
    \/ should_send_audio
    \/ get_state

Init ==
    /\ is_mac \in BOOLEAN
    /\ audio_queue = << >>
    /\ stop_flag = FALSE
    /\ interrupt_flag = FALSE
    /\ timers = {}
    /\ player_pc = "idle"
    /\ audio_data = NoFrame
    /\ chunk_i = 0
    /\ audio_buffer = << >>
    /\ wr = NoWrite
    /\ cancels = 0
    /\ pending = << >>
    /\ session_pc = "start"
    /\ connected = FALSE
    /\ ai_speaking = FALSE
    /\ time_since_ai_stopped = ECHO_COOLDOWN
    /\ session_updates = 0
    /\ tool = NoEvent
    /\ acc_items = [i \in {} |-> << >>]
    /\ arrived = << >>
    /\ cancelled_in_flight = FALSE
    /\ turn_count = 0
    /\ turns_since_summary = 0
    /\ recent_exchanges = << >>
    /\ conversation_summary = 0
    /\ run_pc = "start"
    /\ capture_pc = "start"
    /\ end_sessions = 0
    /\ reports = << >>
    /\ speaker_buffer = << >>
    /\ is_playing = FALSE
    /\ samples_since_play = cooldown_samples + 1
    /\ is_ai_speaking = FALSE
    /\ samples_since_ai_stopped = 0
    /\ ev = NoEvent
    /\ out = << >>
    /\ printed = << >>

NextPlayer ==
    \/ ApiStart
    \/ \E b \in ByteLens : ApiPlay(b)
    \/ ApiCancel
    \/ ApiStop
    \/ Timer
    \/ PlayerThread

SpecPlayer == Init /\ [][NextPlayer]_vars

Next ==
    \/ RunAsync
    \/ \E outcome \in {"connect_failed", "update_failed", "ok"} : Connect(outcome)
    \/ \E e \in InboundEvents, raised \in BOOLEAN : HandleSpeechStarted(e, raised)
    \/ \E e \in InboundEvents : HandleResponseCancelled(e)
    \/ \E e \in InboundEvents : HandleAudioDelta(e)
    \/ \E e \in InboundEvents : HandleResponseDone(e)
    \/ \E e \in InboundEvents : HandleInert(e)
    \/ \E e \in InboundEvents : HandleSpeechStopped(e)
    \/ \E e \in ToolCalls : ToolBegin(e)
    \/ \E raised \in BOOLEAN : ToolResultSent(raised)
    \/ \E raised \in BOOLEAN : ToolContinued(raised)
    \/ \E raised \in BOOLEAN : ConnectionClosed(raised)
    \/ KeyboardInterrupt
    \/ Tick
    \/ Timer

Spec == Init /\ [][Next]_vars

\* the inbound events of SpecEvents
ConversationEvents ==
    {[type |-> "response.output_audio_transcript.delta", item_id |-> i,
      delta |-> d] : i \in ItemIds, d \in DeltaTexts} \cup
    {[type |-> t, item_id |-> i] : t \in TranscriptDoneTypes, i \in ItemIds} \cup
    {[type |-> t] : t \in {"response.done", "rate_limits.updated"}} \cup
    {[type |-> "error", error |-> m] : m \in ErrorMessages} \cup
    {[type |-> "response.audio.delta", delta |-> [valid |-> TRUE, bytes |-> 3600]]}

NextEvents ==
    \/ RunAsync
    \/ Connect("ok")
    \/ \E e \in ConversationEvents : HandleTranscriptDelta(e)
    \/ \E e \in ConversationEvents, ok \in BOOLEAN : HandleTranscriptDone(e, ok)
    \/ \E e \in ConversationEvents : HandleResponseDone(e)
    \/ \E e \in ConversationEvents : HandleAudioDelta(e)
    \/ \E e \in ConversationEvents : HandleInert(e)

SpecEvents == Init /\ [][NextEvents]_vars

\* the inbound events of SpecSummary: the turns of one item
SummaryEvents ==
    {[type |-> "response.audio_transcript.delta", item_id |-> "item_1",
      delta |-> "a"],
     [type |-> "response.audio_transcript.done", item_id |-> "item_1"],
     [type |-> "response.audio_transcript.done", item_id |-> "default"],
     [type |-> SpeechStopped],
     [type |-> "response.done"]}

NextSummary ==
    \/ RunAsync
    \/ Connect("ok")
    \/ \E e \in SummaryEvents : HandleSpeechStopped(e)
    \/ \E e \in SummaryEvents : HandleTranscriptDelta(e)
    \/ \E e \in SummaryEvents, ok \in BOOLEAN : HandleTranscriptDone(e, ok)
    \/ \E e \in SummaryEvents : HandleResponseDone(e)

SpecSummary == Init /\ [][NextSummary]_vars

\* the inbound events of SpecRun
RunEvents ==
    {[type |-> "response.cancelled"]} \cup
    {[type |-> "response.audio.delta", delta |-> d] :
        d \in {[valid |-> FALSE, bytes |-> 0], [valid |-> TRUE, bytes |-> 3600]}}

NextRun ==
    \/ RunAsync
    \/ \E outcome \in {"connect_failed", "update_failed", "ok"} : Connect(outcome)
    \/ \E e \in RunEvents : HandleAudioDelta(e)
    \/ \E e \in RunEvents : HandleResponseCancelled(e)
    \/ \E raised \in BOOLEAN : ConnectionClosed(raised)
    \/ \E raised, stop_raised \in BOOLEAN : CaptureSend(raised, stop_raised)
    \/ \E stop_raised \in BOOLEAN : CaptureReadFailed(stop_raised)
    \/ Interrupt
    \/ \E stop_raised \in BOOLEAN : CaptureCancelled(stop_raised)
    \/ \E raised \in BOOLEAN : ConnectionCancelled(raised)
    \/ GatherDone
    \/ PlayerStop
    \/ EndSession
    \/ RunExcept
    \/ PlayerThread
    \/ Timer

SpecRun == Init /\ [][NextRun]_vars

-----------------------------------------------------------------------------
(* VoiceAgent, the legacy wrapper (src/agent/voice_agent.py, lines 607-629) *)

\* what a Python call returns is a record of its type, "str" with its text;
\* None is the value of a function body that returns nothing
None == [type |-> "NoneType"]

\* the queries given to respond()
Queries == {"What are the visiting hours?", ""}

\* VoiceAgent.listen, lines 619-621: pass
listen == None

\* VoiceAgent.respond, lines 623-625: pass
respond(query) == None

\* the caller calls listen(); listen_and_respond() blocks the caller, so the
\* legacy methods are called before it
Listen ==
    /\ run_pc = "start"
    /\ ev' = [type |-> "listen", result |-> listen]
    /\ out' = << >> /\ printed' = << >>
    /\ UNCHANGED <<playerVars, sessionVars, convVars, runVars, echoVars>>

Respond(query) ==
    /\ run_pc = "start"
    /\ ev' = [type |-> "respond", query |-> query, result |-> respond(query)]
    /\ out' = << >> /\ printed' = << >>
    /\ UNCHANGED <<playerVars, sessionVars, convVars, runVars, echoVars>>

\* VoiceAgent.listen_and_respond, lines 627-629: self.realtime_agent.run()
ListenAndRespond ==
    /\ run_pc = "start"
    /\ RunAsync

NextLegacy ==
    \/ Listen
    \/ \E query \in Queries : Respond(query)
    \/ ListenAndRespond
    \/ \E outcome \in {"connect_failed", "update_failed", "ok"} : Connect(outcome)
    \/ \E e \in RunEvents : HandleAudioDelta(e)
    \/ \E e \in RunEvents : HandleResponseCancelled(e)
    \/ \E raised \in BOOLEAN : ConnectionClosed(raised)
    \/ KeyboardInterrupt
    \/ Timer

SpecLegacy == Init /\ [][NextLegacy]_vars

SpecEcho == Init /\ [][NextEcho]_vars

SpecGate == Init /\ [][NextGate]_vars

-----------------------------------------------------------------------------
(* Claims about the AudioPlayer, under SpecPlayer *)

\* C1: once cancel_current() has been invoked, no write to the output device
\* begins with audio enqueued before that call (a write is tagged with the
\* number of cancels at the moment it began, its data with the number at the
\* moment it was enqueued; a write that began before the cancel may finish).
C1_NoStaleWriteAfterCancel ==
    player_pc = "writing" => \A e \in wr.eps : e >= wr.at

C3_CancelDropThenAccept ==
    [][ /\ (ev'.type = "cancel_current" => Len(audio_queue') = 0)
        /\ (interrupt_flag' => audio_queue' = << >>)
        /\ (ev'.type = "play" /\ interrupt_flag => audio_queue' = audio_queue)
        /\ (ev'.type = "play" /\ ~interrupt_flag /\ audio_queue = << >>
               /\ ~frombuffer(ev'.audio_bytes).raised
               /\ frombuffer(ev'.audio_bytes).len > 0
             => Len(audio_queue') = 1) ]_vars

\* C3 witness: a frame accepted after a cancel whose guard reset has run.
C3_Witness ==
    /\ ev.type = "play" /\ cancels >= 1 /\ ~interrupt_flag /\ timers = {}
    /\ Len(audio_queue) = 1 /\ audio_queue[1].ep >= 1

-----------------------------------------------------------------------------
(* Claims about the event-processing flow, under Spec *)

\* C4: a speech-started event handled while ai_speaking is true, or while
\* less than ECHO_COOLDOWN has passed since ai_speech_end_time, calls neither
\* cancel_current() nor response.cancel and leaves the playback queue, the
\* interrupt flag and ai_speaking as they were.
C4_EchoSuppressed ==
    [][ (ev'.type = SpeechStarted
           /\ (ai_speaking \/ time_since_ai_stopped < ECHO_COOLDOWN))
        => /\ out' = << >>
           /\ UNCHANGED <<audio_queue, interrupt_flag, timers, cancels,
                          ai_speaking, session_pc>> ]_vars

\* C4 witness: a speech-started event was suppressed inside the cooldown,
\* with AI audio still queued.
C4_Witness ==
    /\ ev.type = SpeechStarted /\ out = << >>
    /\ ~ai_speaking /\ time_since_ai_stopped < ECHO_COOLDOWN
    /\ audio_queue # << >>

\* C5: a speech-started event handled with ai_speaking false and the
\* cooldown elapsed calls cancel_current(), leaves ai_speaking false and
\* attempts response.cancel once; whether or not that attempt raises, the
\* loop goes on and the rest of the session state is as it was.
C5_GenuineInterruption ==
    [][ (ev'.type = SpeechStarted
           /\ ~ai_speaking /\ time_since_ai_stopped >= ECHO_COOLDOWN)
        => /\ cancels' = cancels + 1
           /\ interrupt_flag' /\ audio_queue' = << >>
           /\ timers' = timers \cup {cancels + 1}
           /\ ~ai_speaking'
           /\ Len(out') = 1 /\ out'[1].type = "response.cancel"
           /\ session_pc' = "loop"
           /\ UNCHANGED <<time_since_ai_stopped, session_updates, connected,
                          tool, stop_flag>> ]_vars

\* C5 witness: an interruption whose response.cancel raised, the loop still running
C5_Witness ==
    /\ ev.type = SpeechStarted
    /\ Len(out) = 1 /\ out[1].type = "response.cancel" /\ out[1].raised
    /\ session_pc = "loop" /\ interrupt_flag

\* C6: the number of session.update calls is one once the connection is
\* open and zero before, whatever events, errors and interruptions follow.
C6_OneSessionUpdate ==
    session_updates = (IF connected THEN 1 ELSE 0)

\* C6 witness: an error event handled after an interruption, one update sent
C6_Witness ==
    /\ ev.type = "error" /\ cancels >= 1 /\ connected /\ session_updates = 1

\* C7: handle_tool_call raises for no tool name and no arguments; when the
\* arguments of a tool call parse, the session initiates a function_call_output
\* item with the call id whose text is the lookup's text, "Error executing
\* tool" where the lookup raised, "Unknown tool" for a name that is no tool.
C7_ToolFailureIsText ==
    /\ \A n \in NoArgTools \cup {"get_doctor_details", "get_department_info",
                                  "book_appointment"},
          a \in ArgTexts \ {"EMPTY", "MALFORMED"} : ~handle_tool_call(n, a).raised
    /\ (ev.type = ToolCallDone /\ ~json_loads(ev.arguments).raised)
        => LET body == tool_body(ev.name, json_loads(ev.arguments).value) IN
           /\ Len(out) >= 1
           /\ out[1].type = "function_call_output"
           /\ out[1].call_id = ev.call_id
           /\ out[1].output = IF body.raised THEN <<"Error executing tool">>
                               ELSE body.text
           /\ (ev.name \notin NoArgTools \cup {"get_doctor_details",
                                                "get_department_info"}
                 => out[1].output = <<"Unknown tool", ev.name>>)

\* C7 witness: a tool call whose lookup raised was answered with the error text
C7_Witness ==
    /\ ev.type = ToolCallDone
    /\ ~json_loads(ev.arguments).raised
    /\ tool_body(ev.name, json_loads(ev.arguments).value).raised
    /\ Len(out) >= 1 /\ out[1].output = <<"Error executing tool">>

\* C8 as stated: every tool-call event is answered by exactly one tool-result
\* item with its call id and then exactly one response.create.
C8_EveryToolCallAnswered ==
    ev.type = ToolCallDone
    => /\ Len(out) = 2
       /\ out[1].type = "function_call_output" /\ out[1].call_id = ev.call_id
       /\ out[2].type = "response.create"

C8_Handled ==
    ev.type = ToolCallDone
    => IF json_loads(ev.arguments).raised
       THEN out = << >>
       ELSE /\ Len(out) >= 1
            /\ out[1].type = "function_call_output"
            /\ out[1].call_id = ev.call_id
            /\ out[1].output = handle_tool_call(ev.name, json_loads(ev.arguments).value).text
            /\ IF out[1].raised
               THEN Len(out) = 1
               ELSE Len(out) = 2 /\ out[2].type = "response.create"

\* C8 amended: a tool-call event whose arguments are empty or parse as JSON
\* is answered by the dispatcher's text in exactly one tool-result item with
\* its call id, followed, unless sending that item raised, by exactly one
\* response.create; a tool-call event whose arguments do not parse sends
\* nothing.  No other event is handled while a tool call is in progress.
C8_ToolCallSequence ==
    [][ /\ C8_Handled'
        /\ (tool # NoEvent
              => /\ ev' \in {NoEvent, tool.event}
                 /\ (tool' # NoEvent => tool'.event = tool.event)) ]_vars

\* C8 witness: a tool call answered by its result and then a response.create
C8_Witness ==
    /\ ev.type = ToolCallDone /\ ev.call_id = "c2"
    /\ Len(out) = 2 /\ out[1].call_id = "c2" /\ out[2].type = "response.create"

\* C13: an exception raised while decoding or handling one inbound event
\* never ends the event loop: after the step that handled the event the
\* handler has not ended.
C13_LoopSurvivesEveryEvent == [][ev' # NoEvent => session_pc' # "ended"]_vars

\* C16: handling an audio delta sets ai_speaking, enqueues the decoded
\* frame on the AudioPlayer, and appends the frame's samples to the echo
\* history buffer.
C16_AudioDeltaFeedsEchoHistory ==
    [][(/\ ev'.type \in AudioDeltaTypes
        /\ ~b64decode(ev'.delta).raised
        /\ ~frombuffer(b64decode(ev'.delta).bytes).raised
        /\ frombuffer(b64decode(ev'.delta).bytes).len > 0)
       => (/\ ai_speaking'
           /\ audio_queue' = play(b64decode(ev'.delta).bytes)
           /\ speaker_buffer' # speaker_buffer)]_vars

-----------------------------------------------------------------------------
(* Claims about run(), run_async() and send_mic_audio, under SpecRun *)

\* a step of the teardown that needs no Ctrl+C
C14_TeardownProgress ==
    \/ \E raised, stop_raised \in BOOLEAN : CaptureSend(raised, stop_raised)
    \/ GatherDone
    \/ PlayerStop
    \/ EndSession

\* C14: when the connection fails fatally (the connect attempt fails, or the
\* socket closes mid-session) the session reaches teardown without a caller
\* interrupt: as long as run() has not returned some step towards teardown
\* can be taken, and when it has returned the capture flow has ended, the
\* player is stopped, the accounting is flushed and the failure was reported
\* once.
C14_FatalFailureReachesTeardown ==
    /\ (session_pc = "ended" /\ run_pc \in {"gather", "finally", "end_session"})
       => ENABLED C14_TeardownProgress
    /\ run_pc = "returned"
       => (capture_pc = "ended" /\ stop_flag /\ end_sessions = 1 /\ Len(reports) = 1)

\* the connection is opened and closed by the async with of line 357
C15_ConnectionIsClosed == connected /\ session_pc = "ended"

\* C15, as stated: teardown stops the capture flow, then stops the player,
\* then closes the connection, then flushes the accounting.
C15_TeardownOrder ==
    [][/\ (stop_flag' /\ ~stop_flag) => capture_pc \in {"ended", "failed"}
       /\ (C15_ConnectionIsClosed' /\ ~C15_ConnectionIsClosed /\ run_pc # "gather") => stop_flag
       /\ end_sessions' > end_sessions => (stop_flag /\ session_pc = "ended")]_vars

\* C15, amended: teardown stops the capture flow, then stops the player,
\* then flushes the accounting; the connection is closed by the connection
\* task itself as it ends or is cancelled, which is before the player is
\* stopped unless the capture task ended by an exception; and neither a
\* failed stop of the capture stream nor a failed close keeps the player
\* stop and the flush from running.
C15_TeardownOrderAsBuilt ==
    /\ [](run_pc \in InFinally \cup {"run_except"}
          => ENABLED (PlayerStop \/ EndSession \/ RunExcept))
    /\ [][/\ (stop_flag' /\ ~stop_flag) => capture_pc \in {"ended", "failed"}
          /\ (stop_flag' /\ ~stop_flag /\ capture_pc = "ended") => session_pc = "ended"
          /\ end_sessions' > end_sessions => stop_flag
          /\ run_pc' \in {"returned", "interrupted", "crashed"}
             => (stop_flag' /\ end_sessions' >= 1)]_vars

\* C15 witness: the caller stopped a connected session, the close raised
\* and the capture stream failed to stop, and the teardown ran to its end
C15_Witness ==
    /\ run_pc \in {"interrupted", "crashed"} /\ connected
    /\ stop_flag /\ end_sessions >= 1
    /\ ConnectionError \in {reports[i] : i \in 1..Len(reports)}

-----------------------------------------------------------------------------
(* Claims about the EchoCanceller, under SpecEcho *)

\* C9: with the history buffer empty, process_mic_input classifies the
\* frame as human, whatever its energy and whether or not is_playing is set.
C9_EmptyHistoryIsHuman ==
    (ev.type = "process_mic_input" /\ speaker_buffer = << >>)
    => ev.is_likely_human

\* C9 witness: a loud frame arrived with the buffer empty while is_playing
\* was set and the cooldown had not passed
C9_Witness ==
    /\ ev.type = "process_mic_input" /\ speaker_buffer = << >>
    /\ is_playing /\ samples_since_play <= cooldown_samples
    /\ rms_above(ev.mic_audio, 100)
    /\ ev.is_likely_human

\* C10: a captured frame whose RMS energy exceeds 2.5 times the RMS energy
\* of the aligned slice of the history buffer is classified human, in every
\* discriminator state and whatever the correlation.
C10_BargeInWins ==
    (/\ ev.type = "process_mic_input"
     /\ Len(ev.mic_audio) > 0
     /\ Len(speaker_buffer) >= Len(ev.mic_audio)
     /\ 4 * SumSq(ev.mic_audio) > 25 * SumSq(speaker_recent(ev.mic_audio)))
    => ev.is_likely_human

\* C11: a captured frame whose RMS energy is below the noise floor of 100
\* is classified human, in every state of the discriminator and for every
\* content of the history buffer.
C11_QuietIsHuman ==
    (/\ ev.type = "process_mic_input"
     /\ Len(ev.mic_audio) > 0
     /\ SumSq(ev.mic_audio) < 100 * 100 * Len(ev.mic_audio))
    => ev.is_likely_human

\* C11 witness: a quiet frame that correlates with the played slice arrived
\* while playing, and was classified human
C11_Witness ==
    /\ ev.type = "process_mic_input"
    /\ ev.mic_audio = <<50, -50>>
    /\ is_playing /\ samples_since_play <= cooldown_samples
    /\ Len(speaker_buffer) >= 2
    /\ speaker_recent(ev.mic_audio) = <<100, -100>>
    /\ ev.is_likely_human

\* the aligned played slice has RMS 500, the captured frame has RMS r, and
\* their correlation is 0.8
C12_Scenario(r) ==
    LET mic == ev.mic_audio
        spk == speaker_recent(mic)
        m == Scaled(mic)
        s == Scaled(spk)
        cov == Len(m) * Dot(m, s) - Sum(m) * Sum(s)
    IN /\ ev.type = "process_mic_input"
       /\ Len(mic) > 0 /\ Len(speaker_buffer) >= Len(mic)
       /\ SumSq(spk) = 500 * 500 * Len(spk)
       /\ SumSq(mic) = r * r * Len(mic)
       /\ cov > 0 /\ 25 * cov * cov = 16 * Var2(m) * Var2(s)
       /\ (is_playing \/ samples_since_play <= cooldown_samples)

-----------------------------------------------------------------------------
(* Transcripts and turns (SpecEvents) *)

\* the deltas received for one item id, in the order of their arrival
deltas_of(item_id) ==
    LET F[n \in 0..Len(arrived)] ==
            IF n = 0 THEN << >>
            ELSE IF arrived[n].item_id = item_id
                 THEN Append(F[n - 1], arrived[n].delta)
                 ELSE F[n - 1]
    IN F[Len(arrived)]

\* C17: handling a transcript delta prints and sends nothing; the text printed
\* at a transcript-done of an item is the concatenation, in arrival order, of
\* the deltas received for that item id, whatever arrived for other items
C17_TranscriptIsItsDeltasInOrder ==
    /\ ev.type \in TranscriptDeltaTypes => printed = << >> /\ out = << >>
    /\ ev.type \in TranscriptDoneTypes =>
          printed = IF deltas_of(ev.item_id) = << >> THEN << >>
                    ELSE << <<"Assistant:", deltas_of(ev.item_id)>> >>

\* a transcript of two deltas is printed although a delta of another item
\* arrived between them
C17_Witness ==
    /\ ev.type \in TranscriptDoneTypes /\ ev.item_id = "item_1"
    /\ printed = << <<"Assistant:", <<"a", "b">> >> >>
    /\ Len(arrived) = 3 /\ arrived[2].item_id = "default"

\* C18: every transcript-done leaves ai_speaking false and the end of the AI's
\* speech at the current time, and adds exactly one to turn_count
C18_EveryDoneCountsATurn ==
    [][ev'.type \in TranscriptDoneTypes =>
         /\ ~ai_speaking'
         /\ time_since_ai_stopped' = 0
         /\ turn_count' = turn_count + 1]_vars

\* C19: an error event, benign or not, and an event of an unrecognized type
\* leave ai_speaking, the end of the AI's speech, turn_count, the summary, the
\* pending transcripts, the playback queue and the interrupt flag as they
\* were, send nothing and leave the loop running; only an error that is not
\* the benign 'no active response to cancel' is printed
C19_ErrorsAndUnknownEventsAreInert ==
    [][ev'.type \in {"error", "rate_limits.updated"} =>
         /\ UNCHANGED <<ai_speaking, time_since_ai_stopped, turn_count,
                        conversation_summary, acc_items, audio_queue,
                        interrupt_flag>>
         /\ out' = << >>
         /\ session_pc' = "loop"
         /\ printed' = IF ev'.type = "error" /\
                           ev'.error # "response_cancel_not_active"
                        THEN << <<"[ERROR] API", ev'.error>> >>
                        ELSE << >>]_vars

\* the benign error was handled, and nothing was printed, while the AI was
\* speaking with a frame waiting, a transcript pending and a turn counted
C19_Witness ==
    /\ ev = [type |-> "error", error |-> "response_cancel_not_active"]
    /\ printed = << >> /\ session_pc = "loop"
    /\ ai_speaking /\ audio_queue # << >> /\ turn_count > 0
    /\ "item_1" \in DOMAIN acc_items

-----------------------------------------------------------------------------
(* Who writes the session state (SpecRun) *)

\* C20: a step of the capture task, of the playback thread or of the
\* guard-reset timer, wherever it falls between the steps of the
\* event-processing task, leaves ai_speaking, the end of the AI's speech,
\* turn_count, conversation_summary, recent_exchanges and acc_items as they were
C20_SessionStateHasOneWriter ==
    [][(\/ \E raised, stop_raised \in BOOLEAN : CaptureSend(raised, stop_raised)
        \/ \E stop_raised \in BOOLEAN : CaptureReadFailed(stop_raised)
        \/ \E stop_raised \in BOOLEAN : CaptureCancelled(stop_raised)
        \/ PlayerThread
        \/ Timer) =>
       UNCHANGED <<ai_speaking, time_since_ai_stopped, turn_count,
                   conversation_summary, recent_exchanges, acc_items>>]_vars

\* the capture task sent a frame while the AI was speaking, the playback
\* thread was in the middle of a frame and a guard-reset timer was pending
C20_Witness ==
    /\ out = << [type |-> "input_audio_buffer.append", raised |-> FALSE] >>
    /\ ai_speaking
    /\ player_pc # "idle"
    /\ timers # {}

-----------------------------------------------------------------------------
(* The capture loop and the player (SpecRun) *)

\* C21: once connected, the capture loop can send in every state of
\* ai_speaking, interrupt_flag and audio_queue, and each of its passes appends
\* the frame it read to the remote input buffer and touches no player state
C21_SendIndependentOfPlayer ==
    /\ [](capture_pc = "running" /\ connected /\ session_pc # "ended" =>
            ENABLED CaptureSend(FALSE, FALSE))
    /\ [][(\E raised, stop_raised \in BOOLEAN : CaptureSend(raised, stop_raised)) =>
            /\ Len(out') = 1
            /\ out'[1].type = "input_audio_buffer.append"
            /\ UNCHANGED <<playerVars, ai_speaking>>]_vars

\* a frame was sent while the AI was speaking and the interrupt flag was set
C21_Witness ==
    /\ out = << [type |-> "input_audio_buffer.append", raised |-> FALSE] >>
    /\ ai_speaking /\ interrupt_flag
    /\ capture_pc = "running"

\* C23: when a read from the input device raises, the capture flow is still
\* running afterwards, ready for its next pass
C23_FailedReadIsRetried ==
    [][(\E stop_raised \in BOOLEAN : CaptureReadFailed(stop_raised)) =>
         capture_pc' = "running"]_vars

-----------------------------------------------------------------------------
(* The playback thread under failures and stop() (SpecPlayer) *)

\* C22: when a write to the output device raises, the playback thread drops
\* the frame in progress and is back at the pop of the next frame
C22_FailedWriteKeepsThreadAlive ==
    [][PlayerWriteEnd(TRUE) =>
         /\ player_pc' = "get"
         /\ audio_data' = NoFrame /\ chunk_i' = 0]_vars

\* C24: once stop() has set stop_flag, the playback thread is never stuck
\* short of the end of _player_thread, where the output stream is stopped and
\* closed: whatever the queue and interrupt_flag are, it has a step to take
\* until it is done
C24_StopEndsThePlaybackThread ==
    stop_flag /\ player_pc # "done" => ENABLED PlayerThread

-----------------------------------------------------------------------------
(* The legacy wrapper (SpecLegacy) *)

\* C25: listen() returns a string, and respond(query) returns a string that
\* is not empty, for every text query
C25_LegacyMethodsReturnText ==
    /\ ev.type = "listen" => ev.result.type = "str"
    /\ ev.type = "respond" => ev.result.type = "str" /\ ev.result.text # ""

-----------------------------------------------------------------------------
(* The guard interval after an interruption (Spec) *)

\* C26: as long as the guard interval of the latest cancel_current() has not
\* elapsed (its timer is still pending), interrupt_flag is set, also when an
\* earlier cancel_current() started its own interval shortly before; and an
\* audio delta handled in that interval leaves audio_queue as it was
C26_FlagHeldForLatestGuardInterval ==
    /\ [](cancels \in timers => interrupt_flag)
    /\ [][(cancels \in timers /\ ev'.type \in AudioDeltaTypes) =>
            audio_queue' = audio_queue]_vars

\* C27: between the cancel request of a genuine interruption and the
\* response-cancelled or response-done event that follows it, an audio delta,
\* which belongs to the cancelled response, is not enqueued, whether the
\* guard interval has elapsed or not
C27_NoAudioOfCancelledResponse ==
    [][(cancelled_in_flight /\ ev'.type \in AudioDeltaTypes) =>
         audio_queue' = audio_queue]_vars

-----------------------------------------------------------------------------
(* The order of playback (SpecPlayer) *)

\* C28: as long as cancel_current() has not been called, what the playback
\* thread hands to the output device at the beginning of a write is the
\* oldest of the frames enqueued and not yet handed over: one frame on the
\* chunked path, whose sub-chunks follow one another from offset 0 in steps
\* of chunk_size, and all the accumulated frames, in their order, on the
\* accumulate path
C28_WritesInEnqueueOrder ==
    [][cancels' = 0 =>
         /\ (wr = NoWrite /\ wr' # NoWrite /\ wr'.site = "chunk" /\ chunk_i = 0) =>
               pending # << >> /\ Head(pending) = audio_data
         /\ (wr = NoWrite /\ wr' # NoWrite /\ wr'.site # "chunk") =>
               /\ audio_buffer # << >>
               /\ Len(audio_buffer) <= Len(pending)
               /\ SubSeq(pending, 1, Len(audio_buffer)) = audio_buffer
         /\ (player_pc = "popped" /\ player_pc' = "chunk") => chunk_i' = 0
         /\ (wr.site = "chunk" /\ player_pc' = "chunk") =>
               /\ chunk_i' = chunk_i + chunk_size
               /\ audio_data' = audio_data]_vars

\* with no cancel so far, the second sub-chunk of a frame is being written
\* while a frame enqueued after it waits in the queue
C28_Witness ==
    /\ cancels = 0 /\ ~is_mac
    /\ wr.site = "chunk" /\ chunk_i = chunk_size
    /\ Len(audio_queue) = 1 /\ pending = audio_queue
    /\ audio_queue[1].n # audio_data.n

-----------------------------------------------------------------------------
(* Summarization (SpecSummary) *)

\* recent_exchanges once line 485 has put the transcript of the turn in its
\* last entry
C29_WithResponse ==
    IF recent_exchanges = << >> THEN recent_exchanges
    ELSE [recent_exchanges EXCEPT ![Len(recent_exchanges)] =
                                   acc_items[ev'.item_id]]

\* C29: at a transcript-done that brings turn_count to the threshold or
\* beyond, with exchanges recorded, the auxiliary call is made; when it
\* returns, recent_exchanges is empty and conversation_summary is a new
\* summary; when it fails, recent_exchanges and conversation_summary are as
\* they were before the call; either way the event loop goes on
C29_SummaryAtThreshold ==
    [][(/\ ev'.type \in TranscriptDoneTypes
        /\ turn_count' = turn_count + 1
        /\ turn_count' >= MAX_TURNS_BEFORE_SUMMARY
        /\ recent_exchanges # << >>) =>
         /\ out' \in {<<ChatCompletion(FALSE)>>, <<ChatCompletion(TRUE)>>}
         /\ out' = <<ChatCompletion(FALSE)>> =>
               /\ recent_exchanges' = << >>
               /\ conversation_summary' # conversation_summary
         /\ out' = <<ChatCompletion(TRUE)>> =>
               /\ recent_exchanges' = C29_WithResponse
               /\ conversation_summary' = conversation_summary
         /\ session_pc' = "loop"]_vars

\* the auxiliary call failed at the threshold, and the exchange is kept
C29_Witness ==
    /\ ev.type \in TranscriptDoneTypes
    /\ out = <<ChatCompletion(TRUE)>>
    /\ turn_count = MAX_TURNS_BEFORE_SUMMARY
    /\ recent_exchanges # << >> /\ conversation_summary = 0

\* C30: whenever the history buffer holds a slice aligned with the captured
\* frame, a frame whose RMS energy is below 0.3 times the RMS energy of that
\* slice is classified human, whatever the energy of the slice: above 100 by
\* the ratio rule of line 104, at or below 100 by the noise floor of line 82.
C30_QuieterThanPlaybackIsHuman ==
    (/\ ev.type = "process_mic_input"
     /\ Len(ev.mic_audio) > 0
     /\ Len(speaker_buffer) >= Len(ev.mic_audio)
     /\ 100 * SumSq(ev.mic_audio) < 9 * SumSq(speaker_recent(ev.mic_audio)))
    => ev.is_likely_human

\* the RMS-120 frame against the RMS-500 slice it copies, while playing:
\* above the noise floor, correlation 1, human only by the ratio rule
C30_Witness ==
    /\ ev.type = "process_mic_input"
    /\ ev.mic_audio = Mic120
    /\ is_playing
    /\ samples_since_play <= cooldown_samples
    /\ Len(speaker_buffer) >= Len(Mic120)
    /\ speaker_recent(Mic120) = Played500
    /\ ev.is_likely_human

\* 25 * cov^2 > 9 * var(mic) * var(spk): the squared Pearson correlation of
\* the two arrays, each in its own unit, exceeds 0.36
C31_CorrelationExceeds(mic, spk) ==
    LET m == Scaled(mic)
        p == Scaled(spk)
        cov == Len(m) * Dot(m, p) - Sum(m) * Sum(p)
    IN /\ Len(m) = Len(p)
       /\ 25 * cov * cov > 9 * Var2(m) * Var2(p)

C32_BufferHoldsMostRecent ==
    /\ [](Len(speaker_buffer) <= buffer_size)
    /\ [][ev'.type = "add_speaker_audio" =>
            LET all == speaker_buffer \o ev'.audio
                kept == Len(speaker_buffer')
            IN /\ kept = IF Len(all) <= buffer_size THEN Len(all)
                                                    ELSE buffer_size
               /\ \A k \in 1..kept :
                      speaker_buffer'[k] = all[Len(all) - kept + k]]_vars
    /\ [][ev'.type \in {"process_mic_input", "mark_playback_stopped"} =>
            speaker_buffer' = speaker_buffer]_vars

\* <<100, -100>>, <<200>> and <<600, -600>> have been added to a buffer of
\* four samples: the oldest sample is evicted, the rest keep their order
C32_Witness ==
    /\ ev = [type |-> "add_speaker_audio", audio |-> <<600, -600>>]
    /\ speaker_buffer = <<-100, 200, 600, -600>>

\* C33: on the accumulate path the frames that were accumulated but not yet
\* written when cancel_current() was called are discarded and are not written
\* once the flag is clear again.  Frames are accumulated only with the flag
\* clear (line 91), so while the flag is set audio_buffer holds only frames
\* from before the cancel: when the flag is cleared none of them is left for
\* the combined write of line 106 or the flush of line 122.
C33_AccumulatedFramesDiscarded ==
    [][(is_mac /\ interrupt_flag /\ ~interrupt_flag') =>
           audio_buffer' = << >>]_vars

\* C34: a speech-started event handled while the playback queue holds frames
\* or the playback thread is writing is suppressed as probable echo:
\* ai_speaking is true or less than ECHO_COOLDOWN has passed since
\* ai_speech_end_time, and the handler cancels nothing.
C34_SuppressedWhilePlaying ==
    [][(/\ ev'.type = SpeechStarted
        /\ audio_queue # << >> \/ player_pc = "writing")
       => /\ ai_speaking \/ time_since_ai_stopped < ECHO_COOLDOWN
          /\ cancels' = cancels
          /\ audio_queue' = audio_queue
          /\ out' = << >>]_vars

\* C35: a frame accepted by play() and not yet handed to the device, with no
\* cancel_current() since it was accepted and no stop(), is still going to be
\* written: the started playback thread has a step to take (pop, accumulate,
\* write, or the flush after a poll timeout), so that under fair scheduling
\* of the thread the frame reaches the device.
C35_AcceptedFrameStillServed ==
    (pending # << >> /\ ~stop_flag /\ player_pc # "idle")
    => ENABLED PlayerThread

\* C36: summarize_conversation is called from the transcript-done handler
\* (an auxiliary call goes out) only when at least MAX_TURNS_BEFORE_SUMMARY
\* turns, this one included, have been counted since it was last called.
C36_SummaryEveryThresholdTurns ==
    [][(ev'.type \in TranscriptDoneTypes /\ out' # << >>) =>
           turns_since_summary + 1 >= MAX_TURNS_BEFORE_SUMMARY]_vars

\* C37: the connection is marked established only in the step that initiates
\* the session-configuration update, and the capture flow initiates an
\* append only once the connection is marked established: every append is
\* initiated after the update of its connection.
C37_ConfiguredBeforeAudio ==
    /\ [](connected => session_updates >= 1)
    /\ [][(out' # << >> /\ out'[1].type = "input_audio_buffer.append") =>
             connected /\ session_updates >= 1]_vars
    /\ [][(~connected /\ connected') =>
             out' # << >> /\ out'[1].type = "session.update"]_vars

\* a frame has been appended on the configured connection
C37_Witness ==
    /\ out = <<[type |-> "input_audio_buffer.append", raised |-> FALSE]>>
    /\ connected /\ session_updates = 1 /\ session_pc = "loop"

\* C38: when run() has finished, by returning, by the KeyboardInterrupt
\* handler or by an exception that leaves it, cost_tracker.end_session() has
\* been executed exactly once (each execution appends one record of the
\* session to the usage summary, cost_tracker.py lines 300-310).
C38_OneEndSessionPerRun ==
    run_pc \in {"returned", "interrupted", "crashed"} => end_sessions = 1

-----------------------------------------------------------------------------
(* Claims about SimpleEchoGate, under SpecGate *)

\* C39: get_state() returns 'LISTENING' exactly in the states in which
\* process_samples(0) returns True, 'AI_SPEAKING' exactly when the AI is
\* marked speaking, and a COOLDOWN state in all remaining states.
C39_StateNamesTheGate ==
    [][ev'.type = "get_state" =>
          LET name == ev'.result.name IN
          /\ name = "LISTENING" <=> process_samples_returns(0)
          /\ name = "AI_SPEAKING" <=> is_ai_speaking
          /\ name = "COOLDOWN" <=> ~is_ai_speaking /\ ~process_samples_returns(0)]_vars

\* C40: the first call made on a freshly constructed discriminator allows
\* speech detection: is_safe_to_detect_speech() returns True, and
\* process_samples(n) returns True for every n of at least 1.  Only the
\* state after construction has no call recorded in ev.
C40_FreshDiscriminatorAllows ==
    [][ev = NoEvent =>
          /\ ev'.type = "is_safe_to_detect_speech" => ev'.result
          /\ (ev'.type = "process_samples" /\ ev'.num_samples >= 1) => ev'.result]_vars

====
